---------------------------- MODULE Spec2Model ----------------------------
(***************************************************************************)
(* Waste classifier backend (backend/app.py, backend/gemini_service.py,    *)
(* backend/utils.py): the /api/classify handler with its primary (Gemini   *)
(* Vision) and secondary (YOLO) classifiers, the label normalizer, the     *)
(* dustbin taxonomy and the tip generator.                                 *)
(*                                                                         *)
(* Text is a sequence of one-character strings, so that upper(), strip(),  *)
(* split() and the `in` substring test are computed, not assumed.          *)
(* A confidence is an integer number of 1/100000 (0.65 is 65000).          *)
(***************************************************************************)
EXTENDS Integers, Sequences, FiniteSets, TLC

(* ------------------------------ text ----------------------------------- *)

lowercase == <<"a","b","c","d","e","f","g","h","i","j","k","l","m","n","o","p","q","r","s","t","u","v","w","x","y","z">>
uppercase == <<"A","B","C","D","E","F","G","H","I","J","K","L","M","N","O","P","Q","R","S","T","U","V","W","X","Y","Z">>
whitespace == {" ", "\t", "\n", "\r"}

\* Python None, kept apart from every text (no character is "<None>").
None == <<"<None>">>

upper_char(c) ==
    IF \E i \in DOMAIN lowercase : lowercase[i] = c
    THEN uppercase[CHOOSE i \in DOMAIN lowercase : lowercase[i] = c]
    ELSE c

lower_char(c) ==
    IF \E i \in DOMAIN uppercase : uppercase[i] = c
    THEN lowercase[CHOOSE i \in DOMAIN uppercase : uppercase[i] = c]
    ELSE c

\* str.upper()
upper(s) == [i \in DOMAIN s |-> upper_char(s[i])]

\* str.lower()
lower(s) == [i \in DOMAIN s |-> lower_char(s[i])]

\* index of the first non-whitespace character at or after i, Len(s) + 1 if none
RECURSIVE first_kept(_, _)
first_kept(s, i) ==
    IF i > Len(s) THEN i
    ELSE IF s[i] \in whitespace THEN first_kept(s, i + 1) ELSE i

\* index of the last non-whitespace character at or before i, 0 if none
RECURSIVE last_kept(_, _)
last_kept(s, i) ==
    IF i < 1 THEN i
    ELSE IF s[i] \in whitespace THEN last_kept(s, i - 1) ELSE i

\* str.strip(): drop leading and trailing whitespace
strip(s) == SubSeq(s, first_kept(s, 1), last_kept(s, Len(s)))

\* `sub in s` on strings
contains(sub, s) ==
    \E i \in 0..(Len(s) - Len(sub)) : SubSeq(s, i + 1, i + Len(sub)) = sub

\* str.split(sep) for a one-character separator: always at least one field
RECURSIVE split(_, _)
split(s, sep) ==
    LET at == {i \in DOMAIN s : s[i] = sep}
    IN  IF at = {} THEN <<s>>
        ELSE LET i == CHOOSE k \in at : \A j \in at : k <= j
             IN  <<SubSeq(s, 1, i - 1)>> \o split(SubSeq(s, i + 1, Len(s)), sep)

\* str.rsplit(sep, 1): split once, at the last separator
rsplit1(s, sep) ==
    LET at == {i \in DOMAIN s : s[i] = sep}
    IN  IF at = {} THEN <<s>>
        ELSE LET i == CHOOSE k \in at : \A j \in at : j <= k
             IN  <<SubSeq(s, 1, i - 1), SubSeq(s, i + 1, Len(s))>>

digits == <<"0","1","2","3","4","5","6","7","8","9">>
is_digit(c) == \E i \in DOMAIN digits : digits[i] = c
digit_value(c) == (CHOOSE i \in DOMAIN digits : digits[i] = c) - 1

RECURSIVE int_of(_)
int_of(ds) ==
    IF ds = <<>> THEN 0
    ELSE 10 * int_of(SubSeq(ds, 1, Len(ds) - 1)) + digit_value(ds[Len(ds)])

RECURSIVE pow10(_)
pow10(n) == IF n = 0 THEN 1 ELSE 10 * pow10(n - 1)

\* 1.0 as a fixed-point confidence
one == pow10(5)

\* float(text) for decimal literals [sign] digits [. digits]: ok = FALSE is
\* the ValueError; v is the value in 1/100000. Literals with more than five
\* fraction digits, exponents, "inf" and "nan" are outside the replies drawn.
float(s) ==
    LET t      == strip(s)
        signed == t # <<>> /\ t[1] \in {"+", "-"}
        body   == IF signed THEN SubSeq(t, 2, Len(t)) ELSE t
        fields == split(body, ".")
        ip     == fields[1]
        fp     == IF Len(fields) = 2 THEN fields[2] ELSE <<>>
        wf     == /\ Len(fields) <= 2
                  /\ Len(ip) + Len(fp) > 0
                  /\ Len(fp) <= 5
                  /\ \A i \in DOMAIN ip : is_digit(ip[i])
                  /\ \A i \in DOMAIN fp : is_digit(fp[i])
        mag    == int_of(ip) * one + int_of(fp) * pow10(5 - Len(fp))
    IN  IF ~wf THEN [ok |-> FALSE, v |-> 0]
        ELSE [ok |-> TRUE, v |-> IF signed /\ t[1] = "-" THEN 0 - mag ELSE mag]

\* round(x, 4) on a value in 1/100000; the confidences drawn never end in 5,
\* where Python's result depends on the binary representation
round4(x) == IF x >= 0 THEN ((x + 5) \div 10) * 10 ELSE 0 - (((0 - x) + 5) \div 10) * 10


(* ------------------- string literals of utils.py ----------------------- *)

RECYCLABLE == <<"R","E","C","Y","C","L","A","B","L","E">>
ORGANIC == <<"O","R","G","A","N","I","C">>
HAZARDOUS == <<"H","A","Z","A","R","D","O","U","S">>
GENERAL == <<"G","E","N","E","R","A","L">>
BIODEGRADABLE == <<"B","I","O","D","E","G","R","A","D","A","B","L","E">>
PLASTIC == <<"P","L","A","S","T","I","C">>
UNIDENTIFIED == <<"U","N","I","D","E","N","T","I","F","I","E","D">>

(* ------------------------------ utils.py ------------------------------- *)

\* get_dustbin_color: color_mapping.get(waste_class.upper(), "grey")
get_dustbin_color(waste_class) ==
    LET k == upper(waste_class)
    IN  CASE k = RECYCLABLE    -> "blue"
          [] k = ORGANIC       -> "green"
          [] k = HAZARDOUS     -> "red"
          [] k = GENERAL       -> "grey"
          [] k = BIODEGRADABLE -> "green"
          [] OTHER             -> "grey"

\* get_dustbin_icon: icon_mapping.get(waste_class.upper(), "trash")
get_dustbin_icon(waste_class) ==
    LET k == upper(waste_class)
    IN  CASE k = RECYCLABLE    -> "recycle"
          [] k = ORGANIC       -> "leaf"
          [] k = HAZARDOUS     -> "warning"
          [] k = GENERAL       -> "trash"
          [] k = BIODEGRADABLE -> "leaf"
          [] OTHER             -> "trash"

\* get_fallback_awareness_tip: tips.get(waste_class.upper(), <unidentified>).
\* A tip template is named by its key; its text is never parsed.
get_fallback_awareness_tip(waste_class) ==
    LET k == upper(waste_class)
    IN  [kind |-> "fallback",
         key  |-> IF k \in {ORGANIC, RECYCLABLE, HAZARDOUS, GENERAL}
                  THEN k ELSE UNIDENTIFIED,
         text |-> <<>>]

allowed_extensions ==
    { <<"p","n","g">>, <<"j","p","g">>, <<"j","p","e","g">>, <<"g","i","f">>,
      <<"b","m","p">>, <<"w","e","b","p">>, <<"j","f","i","f">>,
      <<"p","j","p","e","g">>, <<"p","j","p">> }

\* validate_image_format(filename)
validate_image_format(filename) ==
    IF filename = None \/ filename = <<>> THEN FALSE
    ELSE IF ~contains(<<".">>, filename) THEN FALSE
    ELSE lower(rsplit1(filename, ".")[2]) \in allowed_extensions

recyclable_keywords ==
    << RECYCLABLE,
       <<"R","E","C","Y","C","L","E">>,
       PLASTIC,
       <<"P","A","P","E","R">>,
       <<"G","L","A","S","S">>,
       <<"M","E","T","A","L">>,
       <<"C","A","R","D","B","O","A","R","D">>,
       <<"A","L","U","M","I","N","U","M">>,
       <<"C","A","N">>,
       <<"B","O","T","T","L","E">> >>
organic_keywords ==
    << ORGANIC,
       BIODEGRADABLE,
       <<"C","O","M","P","O","S","T">>,
       <<"F","O","O","D">>,
       <<"G","A","R","D","E","N">>,
       <<"L","E","A","F">>,
       <<"L","E","A","V","E","S">>,
       <<"W","O","O","D">> >>
hazardous_keywords ==
    << HAZARDOUS,
       <<"H","A","Z","A","R","D">>,
       <<"B","A","T","T","E","R","Y">>,
       <<"C","H","E","M","I","C","A","L">>,
       <<"M","E","D","I","C","A","L">>,
       <<"E","-","W","A","S","T","E">>,
       <<"T","O","X","I","C">>,
       <<"P","A","I","N","T">>,
       <<"B","U","L","B">> >>
general_keywords ==
    << GENERAL,
       <<"T","R","A","S","H">>,
       <<"T","I","S","S","U","E">>,
       <<"W","R","A","P","P","E","R">>,
       <<"C","H","I","P">>,
       <<"S","N","A","C","K">>,
       <<"S","T","Y","R","O","F","O","A","M">> >>

\* Variant of any_keyword_in: the label has to be a keyword, not to contain one.
any_keyword_is(keywords, normalized) ==
    \E i \in DOMAIN keywords : keywords[i] = normalized

\* any(keyword in normalized for keyword in keywords)
any_keyword_in(keywords, normalized) ==
    \E i \in DOMAIN keywords : contains(keywords[i], normalized)

\* Variant of normalize_class_name: the label is compared in the case it has.
normalize_class_name_cased(yolo_class_name) ==
    LET normalized == strip(yolo_class_name)
    IN  IF normalized = RECYCLABLE THEN RECYCLABLE
        ELSE IF normalized = ORGANIC THEN ORGANIC
        ELSE IF normalized = BIODEGRADABLE THEN ORGANIC
        ELSE IF normalized = HAZARDOUS THEN HAZARDOUS
        ELSE IF normalized = GENERAL THEN GENERAL
        ELSE IF any_keyword_in(recyclable_keywords, normalized) THEN RECYCLABLE
        ELSE IF any_keyword_in(organic_keywords, normalized) THEN ORGANIC
        ELSE IF any_keyword_in(hazardous_keywords, normalized) THEN HAZARDOUS
        ELSE IF any_keyword_in(general_keywords, normalized) THEN GENERAL
        ELSE GENERAL

\* Variant of normalize_class_name: the hazardous keywords are scanned first.
normalize_class_name_hazardous_first(yolo_class_name) ==
    LET normalized == strip(upper(yolo_class_name))
    IN  IF normalized = RECYCLABLE THEN RECYCLABLE
        ELSE IF normalized = ORGANIC THEN ORGANIC
        ELSE IF normalized = BIODEGRADABLE THEN ORGANIC
        ELSE IF normalized = HAZARDOUS THEN HAZARDOUS
        ELSE IF normalized = GENERAL THEN GENERAL
        ELSE IF any_keyword_in(hazardous_keywords, normalized) THEN HAZARDOUS
        ELSE IF any_keyword_in(recyclable_keywords, normalized) THEN RECYCLABLE
        ELSE IF any_keyword_in(organic_keywords, normalized) THEN ORGANIC
        ELSE IF any_keyword_in(general_keywords, normalized) THEN GENERAL
        ELSE GENERAL

\* Variant of normalize_class_name: an unmatched label is HAZARDOUS.
normalize_class_name_default_hazardous(yolo_class_name) ==
    LET normalized == strip(upper(yolo_class_name))
    IN  IF normalized = RECYCLABLE THEN RECYCLABLE
        ELSE IF normalized = ORGANIC THEN ORGANIC
        ELSE IF normalized = BIODEGRADABLE THEN ORGANIC
        ELSE IF normalized = HAZARDOUS THEN HAZARDOUS
        ELSE IF normalized = GENERAL THEN GENERAL
        ELSE IF any_keyword_in(recyclable_keywords, normalized) THEN RECYCLABLE
        ELSE IF any_keyword_in(organic_keywords, normalized) THEN ORGANIC
        ELSE IF any_keyword_in(hazardous_keywords, normalized) THEN HAZARDOUS
        ELSE IF any_keyword_in(general_keywords, normalized) THEN GENERAL
        ELSE HAZARDOUS

\* normalize_class_name(yolo_class_name)
normalize_class_name(yolo_class_name) ==
    LET normalized == strip(upper(yolo_class_name))
    IN  IF normalized = RECYCLABLE THEN RECYCLABLE
        ELSE IF normalized = ORGANIC THEN ORGANIC
        ELSE IF normalized = BIODEGRADABLE THEN ORGANIC
        ELSE IF normalized = HAZARDOUS THEN HAZARDOUS
        ELSE IF normalized = GENERAL THEN GENERAL
        ELSE IF any_keyword_in(recyclable_keywords, normalized) THEN RECYCLABLE
        ELSE IF any_keyword_in(organic_keywords, normalized) THEN ORGANIC
        ELSE IF any_keyword_in(hazardous_keywords, normalized) THEN HAZARDOUS
        ELSE IF any_keyword_in(general_keywords, normalized) THEN GENERAL
        ELSE GENERAL

(* -------------------------- gemini_service.py -------------------------- *)

\* A collaborator's answer to one call: a raised fault, or the reply text
\* (response.text; empty when the reply is empty).
Fault == [fault |-> TRUE, text |-> <<>>]
Reply(t) == [fault |-> FALSE, text |-> t]

GenerativeModel == <<"GenerativeModel">>

\* min(confidence, 0.99)
MAX_GEMINI_CONFIDENCE == 99000

\* confidence = 0.85 when float() raises
DEFAULT_GEMINI_CONFIDENCE == 85000

null_attempt == <<None, None, 0>>

\* Variant of cap_confidence: the confidence is passed on as it is.
cap_confidence_none(conf) == conf

\* confidence = min(confidence, 0.99)
cap_confidence(conf) ==
    IF conf < MAX_GEMINI_CONFIDENCE THEN conf ELSE MAX_GEMINI_CONFIDENCE

\* Variant of parse_confidence: an unreadable confidence counts as none.
parse_confidence_or_zero(field) ==
    LET parsed == float(strip(field))
    IN  IF parsed.ok THEN parsed.v ELSE 0

\* try: confidence = float(parts[2].strip()) / except: confidence = 0.85
parse_confidence(field) ==
    LET parsed == float(strip(field))
    IN  IF parsed.ok THEN parsed.v ELSE DEFAULT_GEMINI_CONFIDENCE

\* Variant of validate_category: the category field is passed on as it is.
validate_category_as_is(category) == category

\* if category not in ["ORGANIC", "RECYCLABLE", "HAZARDOUS"]: category = "HAZARDOUS"
validate_category(category) ==
    IF category \notin {ORGANIC, RECYCLABLE, HAZARDOUS} THEN HAZARDOUS ELSE category

\* classify_with_gemini_vision(image), given the module's vision_model and the
\* answer of vision_model.generate_content: (category, item_name, confidence)
classify_with_gemini_vision(vm, answer) ==
    IF vm = None THEN null_attempt
    ELSE IF answer.fault THEN null_attempt
    ELSE IF answer.text = <<>> THEN null_attempt
    ELSE LET result == strip(answer.text)
             parts  == split(result, "|")
         IN  IF Len(parts) >= 3
             THEN LET category   == upper(strip(parts[1]))
                      item_name  == strip(parts[2])
                      confidence == parse_confidence(parts[3])
                      capped     == cap_confidence(confidence)
                  IN  <<validate_category(category), item_name, capped>>
             ELSE null_attempt

\* len(tip) > 250 and tip[:247]
MAX_TIP_LENGTH == 250
TIP_PREFIX_LENGTH == 247
ellipsis == <<".",".",".">>

\* Variant of generate_awareness_tip: a tip is returned at its full length.
generate_awareness_tip_whole(tm, enable, item_name, category, confidence, answer) ==
    IF tm = None \/ ~enable THEN get_fallback_awareness_tip(category)
    ELSE IF answer.fault THEN get_fallback_awareness_tip(category)
    ELSE IF answer.text # <<>>
         THEN [kind |-> "generated", key |-> <<>>, text |-> strip(answer.text)]
         ELSE get_fallback_awareness_tip(category)

\* Variant of generate_awareness_tip: a reply is taken as the tip, empty or not.
generate_awareness_tip_any_reply(tm, enable, item_name, category, confidence, answer) ==
    IF tm = None \/ ~enable THEN get_fallback_awareness_tip(category)
    ELSE IF answer.fault THEN get_fallback_awareness_tip(category)
    ELSE LET tip == strip(answer.text)
         IN  [kind |-> "generated", key |-> <<>>,
              text |-> IF Len(tip) > MAX_TIP_LENGTH
                       THEN SubSeq(tip, 1, TIP_PREFIX_LENGTH) \o ellipsis
                       ELSE tip]

\* generate_awareness_tip(item_name, category, confidence), given the module's
\* model and ENABLE_GEMINI and the answer of model.generate_content
generate_awareness_tip(tm, enable, item_name, category, confidence, answer) ==
    IF tm = None \/ ~enable THEN get_fallback_awareness_tip(category)
    ELSE IF answer.fault THEN get_fallback_awareness_tip(category)
    ELSE IF answer.text # <<>>
         THEN LET tip == strip(answer.text)
              IN  [kind |-> "generated", key |-> <<>>,
                   text |-> IF Len(tip) > MAX_TIP_LENGTH
                            THEN SubSeq(tip, 1, TIP_PREFIX_LENGTH) \o ellipsis
                            ELSE tip]
         ELSE get_fallback_awareness_tip(category)

LOW_CONFIDENCE == 50000
UNCERTAIN_CONFIDENCE == 70000

\* Variant of generate_safety_warning: a warning below LOW_CONFIDENCE only.
generate_safety_warning_low_only(confidence) ==
    IF confidence < LOW_CONFIDENCE
    THEN "Low confidence detection. When unsure, treat as HAZARDOUS waste for safety."
    ELSE ""

\* Variant of generate_safety_warning: each bound belongs to the tier below it.
generate_safety_warning_inclusive(confidence) ==
    IF confidence <= LOW_CONFIDENCE
    THEN "Low confidence detection. When unsure, treat as HAZARDOUS waste for safety."
    ELSE IF confidence <= UNCERTAIN_CONFIDENCE
    THEN "Uncertain classification. Please verify or consult local waste guidelines."
    ELSE ""

\* generate_safety_warning(confidence); the warning sign that opens each
\* message is left out of the text
generate_safety_warning(confidence) ==
    IF confidence < LOW_CONFIDENCE
    THEN "Low confidence detection. When unsure, treat as HAZARDOUS waste for safety."
    ELSE IF confidence < UNCERTAIN_CONFIDENCE
    THEN "Uncertain classification. Please verify or consult local waste guidelines."
    ELSE ""

(* -------------------------------- app.py ------------------------------- *)

valid_content_types ==
    { <<"i","m","a","g","e","/","j","p","e","g">>,
       <<"i","m","a","g","e","/","p","n","g">>,
       <<"i","m","a","g","e","/","j","p","g">>,
       <<"i","m","a","g","e","/","b","m","p">>,
       <<"i","m","a","g","e","/","w","e","b","p">>,
       <<"i","m","a","g","e","/","g","i","f">>,
       <<"i","m","a","g","e","/","t","i","f","f">> }

\* MAX_IMAGE_SIZE default (10MB) and CONFIDENCE_THRESHOLD default (0.65)
MAX_IMAGE_SIZE == 10485760
DEFAULT_CONFIDENCE_THRESHOLD == 65000

YOLO == <<"YOLO">>

(* ------------------------------- inputs -------------------------------- *)

name_photo_PNG == <<"p","h","o","t","o",".","P","N","G">>
name_doc_pdf == <<"d","o","c",".","p","d","f">>
type_Image_JPEG == <<"I","m","a","g","e","/","J","P","E","G">>
type_text_plain == <<"t","e","x","t","/","p","l","a","i","n">>

\* Uploads: file name and content type (each may be missing), size in bytes,
\* and whether PIL can open and convert the bytes.
UploadNames ==
    { <<name_photo_PNG, type_Image_JPEG>>, <<name_photo_PNG, type_text_plain>>,
      <<name_doc_pdf, type_Image_JPEG>>, <<name_doc_pdf, type_text_plain>>,
      <<name_doc_pdf, None>>, <<None, None>> }

Uploads ==
    { [filename |-> n[1], content_type |-> n[2], size |-> sz, decodable |-> d] :
        n \in UploadNames, sz \in {MAX_IMAGE_SIZE, MAX_IMAGE_SIZE + 1}, d \in BOOLEAN }

\* Configured thresholds: the default and a lower one.
Thresholds == {DEFAULT_CONFIDENCE_THRESHOLD, 50000}

item_plastic_bottle == <<"p","l","a","s","t","i","c"," ","b","o","t","t","l","e">>
field_organic == <<" ","o","r","g","a","n","i","c","\t">>
conf_0_95 == <<"0",".","9","5">>
conf_0_4 == <<" ","0",".","4"," ">>
conf_1_5 == <<"1",".","5">>
conf_0 == <<"0">>
conf_neg == <<"-","0",".","5">>
conf_high == <<"h","i","g","h">>
conf_tiny == <<"0",".","0","0","0","0","1">>

pipe(a, b) == a \o <<"|">> \o b

\* Replies of the primary: every category field with every positive or
\* non-numeric confidence field, and the replies that carry no usable answer.
CategoryFields == {RECYCLABLE, field_organic, HAZARDOUS, GENERAL, PLASTIC}
ConfidenceFields == {conf_0_95, conf_0_4, conf_1_5, conf_high}

PrimaryTexts ==
    { pipe(pipe(c, item_plastic_bottle), f) : c \in CategoryFields, f \in ConfidenceFields }
    \cup { pipe(pipe(pipe(RECYCLABLE, item_plastic_bottle), conf_0_95), conf_high),
           pipe(pipe(ORGANIC, item_plastic_bottle), conf_0),
           pipe(pipe(RECYCLABLE, item_plastic_bottle), conf_neg),
           pipe(pipe(RECYCLABLE, item_plastic_bottle), conf_tiny),
           pipe(RECYCLABLE, item_plastic_bottle),
           <<" ", "\n">>,
           <<>> }

PrimaryAnswers == {Fault} \cup {Reply(t) : t \in PrimaryTexts}

label_battery == <<"b","a","t","t","e","r","y">>
label_plastic_bottle == <<"p","l","a","s","t","i","c","_","b","o","t","t","l","e">>
label_food == <<"f","o","o","d">>
label_unknown_item == <<"u","n","k","n","o","w","n","_","i","t","e","m">>

\* results[0].names: the detector's vocabulary, class id -> native label
class_names == <<label_battery, label_plastic_bottle, label_food, label_unknown_item>>

\* Confidences of a box: 0.4, 0.5 and 0.7, which lie below every configured
\* threshold, at one and above one, and on both sides of each bound of
\* generate_safety_warning
DetectionConfidences == {40000, LOW_CONFIDENCE, UNCERTAIN_CONFIDENCE}

\* Most boxes in one detector output.
MaxBoxes == 2

Boxes == [cls : DOMAIN class_names, conf : DetectionConfidences]

BoxLists == UNION { [1..n -> Boxes] : n \in 0..MaxBoxes }

\* Answers of the detector: a fault, an empty result list, or one Results
\* object holding the boxes.
NoResults == [fault |-> FALSE, results |-> <<>>]
DetectorFault == [fault |-> TRUE, results |-> <<>>]
DetectorAnswers ==
    {DetectorFault, NoResults}
    \cup { [fault |-> FALSE, results |-> << [boxes |-> b] >>] : b \in BoxLists }

\* A short tip, and a tip of n characters
short_tip == <<"R","i","n","s","e"," ","i","t",".">>
long_tip(n) == [i \in 1..n |-> "x"]

TipAnswers == {Fault, Reply(<<>>), Reply(short_tip), Reply(long_tip(MAX_TIP_LENGTH + 1))}

\* Replies to a direct call of the tip generator: those, a tip of exactly the
\* greatest length kept, a longer one, and tips between whitespace
DirectTipAnswers ==
    TipAnswers
    \cup { Reply(long_tip(MAX_TIP_LENGTH)),
           Reply(long_tip(MAX_TIP_LENGTH + 50)),
           Reply(<<" ">> \o short_tip \o <<"\n">>),
           Reply(<<" ">> \o long_tip(MAX_TIP_LENGTH) \o <<"\n">>),
           Reply(<<" ">> \o long_tip(MAX_TIP_LENGTH + 1) \o <<"\n">>),
           Reply(<<" ", "\n">>) }

(* -------------------------------- state -------------------------------- *)

VARIABLES
    server,                  \* "starting", "serving" or "failed" (startup_event)
    model,                   \* app.model: None or the loaded YOLO handle
    CONFIDENCE_THRESHOLD,    \* app.CONFIDENCE_THRESHOLD
    ENABLE_GEMINI,           \* gemini_service.ENABLE_GEMINI
    vision_model,            \* gemini_service.vision_model
    tip_model,               \* gemini_service.model
    pc,                      \* position of the request in classify_waste
    file,                    \* the upload of the request
    reply,                   \* the primary's answer to the request
    gemini,                  \* (gemini_category, gemini_item, gemini_confidence)
    detector,                \* the detector's answer to the request
    category,
    detected_item,
    confidence,
    is_safe_classification,
    calls,                   \* collaborators invoked by the request, in order
    status,                  \* HTTP status of the response, 0 before it
    response,                \* body of the response
    called,                  \* function last called directly, as the test scripts do
    argument,                \* the arguments of that call
    returned,                \* what the call returned
    other                    \* the request in flight beside this one

config == <<server, model, CONFIDENCE_THRESHOLD, ENABLE_GEMINI, vision_model, tip_model>>
locals == <<gemini, category, detected_item, confidence, is_safe_classification>>
direct == <<called, argument, returned>>
request == <<pc, file, reply, detector, locals, calls, status, response>>
vars == <<config, pc, file, reply, detector, locals, calls, status, response, direct, other>>

NoFile == [filename |-> None, content_type |-> None, size |-> 0, decodable |-> FALSE]
NoAnswer == [fault |-> FALSE, text |-> None]
NoDetector == [fault |-> FALSE, results |-> None]
NoResponse == [detail |-> "no response"]
NoCall == "no call"
NoArguments == [of |-> NoCall]
NoReturn == [of |-> NoCall]

HTTPException(detail) == [detail |-> detail]

\* A request of classify_waste before it has received anything.
NoRequest ==
    <<"idle", NoFile, NoAnswer, NoDetector,
      <<null_attempt, None, None, 0, FALSE>>, <<>>, 0, NoResponse>>

\* Module initialisation of gemini_service.py and app.py: the Gemini handles
\* exist only with a key, the enable flag and a successful configure().
Init ==
    /\ server = "starting"
    /\ model = None
    /\ CONFIDENCE_THRESHOLD \in Thresholds
    /\ ENABLE_GEMINI \in BOOLEAN
    /\ \E configured \in BOOLEAN :
          /\ vision_model = IF configured /\ ENABLE_GEMINI THEN GenerativeModel ELSE None
          /\ tip_model = IF configured /\ ENABLE_GEMINI THEN GenerativeModel ELSE None
    /\ pc = "idle"
    /\ file = NoFile
    /\ reply = NoAnswer
    /\ gemini = null_attempt
    /\ detector = NoDetector
    /\ category = None
    /\ detected_item = None
    /\ confidence = 0
    /\ is_safe_classification = FALSE
    /\ calls = <<>>
    /\ status = 0
    /\ response = NoResponse
    /\ called = NoCall
    /\ argument = NoArguments
    /\ returned = NoReturn
    /\ other = NoRequest

\* startup_event: YOLO(MODEL_PATH) loads
Startup ==
    /\ server = "starting"
    /\ pc = "idle"
    /\ server' = "serving"
    /\ model' = YOLO
    /\ UNCHANGED <<CONFIDENCE_THRESHOLD, ENABLE_GEMINI, vision_model, tip_model>>
    /\ UNCHANGED <<pc, file, reply, detector, locals, calls, status, response, direct, other>>

\* startup_event: YOLO(MODEL_PATH) raises, RuntimeError ends the application
StartupFails ==
    /\ server = "starting"
    /\ pc = "idle"
    /\ server' = "failed"
    /\ UNCHANGED <<model, CONFIDENCE_THRESHOLD, ENABLE_GEMINI, vision_model, tip_model>>
    /\ UNCHANGED <<pc, file, reply, detector, locals, calls, status, response, direct, other>>

\* is_valid_by_type: file.content_type and file.content_type.lower() in valid_content_types
is_valid_by_type(content_type) ==
    /\ content_type # None
    /\ content_type # <<>>
    /\ lower(content_type) \in valid_content_types

\* Variant of upload_status: the model handle is not looked at.
upload_status_model_unchecked(m, f) ==
    IF f.size > MAX_IMAGE_SIZE THEN 413
    ELSE IF ~validate_image_format(f.filename) /\ ~is_valid_by_type(f.content_type) THEN 400
    ELSE IF ~f.decodable THEN 500
    ELSE 0

\* Variant of upload_status: an image that cannot be opened is passed on.
upload_status_no_decode(m, f) ==
    IF m = None THEN 500
    ELSE IF f.size > MAX_IMAGE_SIZE THEN 413
    ELSE IF ~validate_image_format(f.filename) /\ ~is_valid_by_type(f.content_type) THEN 400
    ELSE 0

\* Variant of upload_status: the upload is refused when the name or the type
\* is not an image's.
upload_status_either(m, f) ==
    IF m = None THEN 500
    ELSE IF f.size > MAX_IMAGE_SIZE THEN 413
    ELSE IF ~validate_image_format(f.filename) \/ ~is_valid_by_type(f.content_type) THEN 400
    ELSE IF ~f.decodable THEN 500
    ELSE 0

\* classify_waste lines 123-156: what the handler does with the upload before
\* the primary is called: 0 when it goes on, else the status it raises
upload_status(m, f) ==
    IF m = None THEN 500
    ELSE IF f.size > MAX_IMAGE_SIZE THEN 413
    ELSE IF ~validate_image_format(f.filename) /\ ~is_valid_by_type(f.content_type) THEN 400
    ELSE IF ~f.decodable THEN 500
    ELSE 0

upload_detail(m, f) ==
    IF m = None THEN "Model not loaded"
    ELSE IF f.size > MAX_IMAGE_SIZE THEN "File too large"
    ELSE IF ~validate_image_format(f.filename) /\ ~is_valid_by_type(f.content_type)
    THEN "Invalid file format"
    ELSE "Error processing image"

\* classify_waste receives an upload: model check, size and type validation,
\* Image.open and convert
Receive(f) ==
    /\ server \in {"starting", "serving"}
    /\ pc = "idle"
    /\ file' = f
    /\ IF upload_status(model, f) = 0
       THEN /\ pc' = "primary"
            /\ UNCHANGED <<status, response>>
       ELSE /\ pc' = "done"
            /\ status' = upload_status(model, f)
            /\ response' = HTTPException(upload_detail(model, f))
    /\ UNCHANGED <<config, reply, detector, locals, calls, direct, other>>

\* Variant of primary_succeeded: any category is taken, whatever its confidence.
primary_succeeded_any_confidence(g) == g[1] # None /\ g[1] # <<>>

\* gemini_category and gemini_confidence > 0
primary_succeeded(g) == g[1] # None /\ g[1] # <<>> /\ g[3] > 0

\* Variant of PrimaryCall: a primary that raised is asked again.
PrimaryCall_retry(answer) ==
    /\ pc = "primary"
    /\ vision_model = None => answer = NoAnswer
    /\ calls' = Append(calls, "primary")
    /\ reply' = answer
    /\ LET g == classify_with_gemini_vision(vision_model, answer)
       IN  /\ gemini' = g
           /\ IF primary_succeeded(g)
              THEN /\ category' = g[1]
                   /\ detected_item' = g[2]
                   /\ confidence' = g[3]
                   /\ is_safe_classification' = TRUE
                   /\ pc' = "tip_primary"
              ELSE /\ pc' = IF answer.fault /\ Len(calls) = 0 THEN "primary" ELSE "secondary"
                   /\ UNCHANGED <<category, detected_item, confidence, is_safe_classification>>
    /\ UNCHANGED <<config, file, detector, status, response, direct, other>>

\* classify_waste lines 158-173: the primary is called; its result is used
\* when it names a category with a positive confidence
PrimaryCall(answer) ==
    /\ pc = "primary"
    /\ vision_model = None => answer = NoAnswer
    /\ calls' = Append(calls, "primary")
    /\ reply' = answer
    /\ LET g == classify_with_gemini_vision(vision_model, answer)
       IN  /\ gemini' = g
           /\ IF primary_succeeded(g)
              THEN /\ category' = g[1]
                   /\ detected_item' = g[2]
                   /\ confidence' = g[3]
                   /\ is_safe_classification' = TRUE
                   /\ pc' = "tip_primary"
              ELSE /\ pc' = "secondary"
                   /\ UNCHANGED <<category, detected_item, confidence, is_safe_classification>>
    /\ UNCHANGED <<config, file, detector, status, response, direct, other>>

\* Variant of argmax: the last index holding the largest confidence.
argmax_last(boxes) ==
    CHOOSE i \in DOMAIN boxes :
        /\ \A j \in DOMAIN boxes : boxes[j].conf <= boxes[i].conf
        /\ \A j \in (i + 1)..Len(boxes) : boxes[j].conf < boxes[i].conf

\* confidences.argmax(): the first index holding the largest confidence
argmax(boxes) ==
    CHOOSE i \in DOMAIN boxes :
        /\ \A j \in DOMAIN boxes : boxes[j].conf <= boxes[i].conf
        /\ \A j \in 1..(i - 1) : boxes[j].conf < boxes[i].conf

\* len(results) > 0 and len(results[0].boxes) > 0
has_detections(results) == Len(results) > 0 /\ Len(results[1].boxes) > 0

\* Variant of is_safe: a confidence equal to the threshold is not safe.
is_safe_strict(conf, threshold) == conf > threshold

\* confidence >= CONFIDENCE_THRESHOLD
is_safe(conf, threshold) == conf >= threshold

\* Variant of gated_category: the normalized label is kept at any confidence.
gated_category_no_gate(yolo_class_name, safe) == normalize_class_name(yolo_class_name)

\* category after the safety threshold (lines 214-219)
gated_category(yolo_class_name, safe) ==
    IF ~safe THEN HAZARDOUS ELSE normalize_class_name(yolo_class_name)

\* Variant of no_detection_response: GENERAL's presentation as the default.
no_detection_response_general ==
    [success |-> FALSE,
     category |-> GENERAL,
     confidence |-> 0,
     dustbin_color |-> "grey",
     dustbin_icon |-> "trash",
     explanation |-> [kind |-> "fixed", key |-> <<>>, text |-> <<>>],
     safety_warning |-> "Unable to identify item - dispose as HAZARDOUS for safety",
     is_safe_classification |-> FALSE,
     detected_item |-> None]

\* the response of lines 253-264
no_detection_response ==
    [success |-> FALSE,
     category |-> HAZARDOUS,
     confidence |-> 0,
     dustbin_color |-> "red",
     dustbin_icon |-> "warning",
     explanation |-> [kind |-> "fixed", key |-> <<>>, text |-> <<>>],
     safety_warning |-> "Unable to identify item - dispose as HAZARDOUS for safety",
     is_safe_classification |-> FALSE,
     detected_item |-> None]

\* classify_waste lines 193-224 and 250-271: the detector is called
SecondaryCall(answer) ==
    /\ pc = "secondary"
    /\ calls' = Append(calls, "secondary")
    /\ detector' = answer
    /\ IF answer.fault
       THEN /\ pc' = "done"
            /\ status' = 500
            /\ response' = HTTPException("Error processing image")
            /\ UNCHANGED <<category, detected_item, confidence, is_safe_classification>>
       ELSE IF has_detections(answer.results)
       THEN LET boxes == answer.results[1].boxes
                max_conf_idx == argmax(boxes)
                yolo_class_name == class_names[boxes[max_conf_idx].cls]
                safe == is_safe(boxes[max_conf_idx].conf, CONFIDENCE_THRESHOLD)
            IN  /\ confidence' = boxes[max_conf_idx].conf
                /\ detected_item' = yolo_class_name
                /\ is_safe_classification' = safe
                /\ category' = gated_category(yolo_class_name, safe)
                /\ pc' = "tip_secondary"
                /\ UNCHANGED <<status, response>>
       ELSE /\ pc' = "done"
            /\ status' = 200
            /\ response' = no_detection_response
            /\ UNCHANGED <<category, detected_item, confidence, is_safe_classification>>
    /\ UNCHANGED <<config, file, reply, gemini, direct, other>>

\* Variant of primary_response: the detector's threshold gate applied to the
\* primary's result.
primary_response_gated(cat, item, conf, tip) ==
    LET final == IF conf < DEFAULT_CONFIDENCE_THRESHOLD THEN HAZARDOUS ELSE cat
    IN  [success |-> TRUE,
         category |-> final,
         confidence |-> round4(conf),
         dustbin_color |-> get_dustbin_color(final),
         dustbin_icon |-> get_dustbin_icon(final),
         explanation |-> tip,
         safety_warning |-> "",
         is_safe_classification |-> conf >= DEFAULT_CONFIDENCE_THRESHOLD,
         detected_item |-> item,
         model_used |-> "Gemini Vision AI"]

\* the response of lines 179-191
primary_response(cat, item, conf, tip) ==
    [success |-> TRUE,
     category |-> cat,
     confidence |-> round4(conf),
     dustbin_color |-> get_dustbin_color(cat),
     dustbin_icon |-> get_dustbin_icon(cat),
     explanation |-> tip,
     safety_warning |-> "",
     is_safe_classification |-> TRUE,
     detected_item |-> item,
     model_used |-> "Gemini Vision AI"]

\* Variant of secondary_response: the bin of the normalized label, whatever
\* the threshold made of the category.
secondary_response_bin_of_label(cat, item, conf, safe, tip) ==
    [success |-> TRUE,
     category |-> cat,
     confidence |-> round4(conf),
     dustbin_color |-> get_dustbin_color(normalize_class_name(item)),
     dustbin_icon |-> get_dustbin_icon(normalize_class_name(item)),
     explanation |-> tip,
     safety_warning |-> generate_safety_warning(conf),
     is_safe_classification |-> safe,
     detected_item |-> item]

\* the response of lines 222-245
secondary_response(cat, item, conf, safe, tip) ==
    [success |-> TRUE,
     category |-> cat,
     confidence |-> round4(conf),
     dustbin_color |-> get_dustbin_color(cat),
     dustbin_icon |-> get_dustbin_icon(cat),
     explanation |-> tip,
     safety_warning |-> generate_safety_warning(conf),
     is_safe_classification |-> safe,
     detected_item |-> item]

\* classify_waste lines 175-191: the tip for the primary's result, then the response
TipPrimary(answer) ==
    /\ pc = "tip_primary"
    /\ calls' = Append(calls, "tip")
    /\ LET tip == generate_awareness_tip(tip_model, ENABLE_GEMINI, detected_item,
                                         category, confidence, answer)
       IN  response' = primary_response(category, detected_item, confidence, tip)
    /\ status' = 200
    /\ pc' = "done"
    /\ UNCHANGED <<config, file, reply, detector, locals, direct, other>>

\* classify_waste lines 226-248: the tip for the detector's result, then the response
TipSecondary(answer) ==
    /\ pc = "tip_secondary"
    /\ calls' = Append(calls, "tip")
    /\ LET tip == generate_awareness_tip(tip_model, ENABLE_GEMINI, detected_item,
                                         category, confidence, answer)
       IN  response' = secondary_response(category, detected_item, confidence,
                                          is_safe_classification, tip)
    /\ status' = 200
    /\ pc' = "done"
    /\ detector' = NoDetector
    /\ UNCHANGED <<config, file, reply, locals, direct, other>>

\* the response is sent; the request's locals are gone and the next request
\* can be received
Complete ==
    /\ pc = "done"
    /\ pc' = "idle"
    /\ file' = NoFile
    /\ reply' = NoAnswer
    /\ gemini' = null_attempt
    /\ detector' = NoDetector
    /\ category' = None
    /\ detected_item' = None
    /\ confidence' = 0
    /\ is_safe_classification' = FALSE
    /\ calls' = <<>>
    /\ status' = 0
    /\ response' = NoResponse
    /\ UNCHANGED <<config, direct, other>>

Next ==
    \/ Startup
    \/ StartupFails
    \/ \E f \in Uploads : Receive(f)
    \/ \E answer \in PrimaryAnswers \cup {NoAnswer} : PrimaryCall(answer)
    \/ \E answer \in DetectorAnswers : SecondaryCall(answer)
    \/ \E answer \in TipAnswers : TipPrimary(answer)
    \/ \E answer \in TipAnswers : TipSecondary(answer)
    \/ Complete

Spec == Init /\ [][Next]_vars

(* ----------------------------- direct calls --------------------------- *)
(* The utility functions called on their own, as test_backend.py and        *)
(* test_complete.py call them: each call records what it was given and what *)
(* it returned. The scripts import the modules without starting the server, *)
(* and the functions keep no state, so a behaviour holds one call (and what *)
(* is done with its result).                                                *)

\* Most whitespace characters on each side of a padded label.
MaxPadding == 1

Paddings == UNION { [1..n -> {" ", "\n"}] : n \in 0..MaxPadding }

\* Ways of writing a name: upper case, lower case, capitalized, each padded.
capitalized(s) == <<upper_char(s[1])>> \o lower(SubSeq(s, 2, Len(s)))
Spellings(name) ==
    { l \o w \o r : l \in Paddings, r \in Paddings,
                    w \in {name, lower(name), capitalized(name)} }

keyword_lists == <<recyclable_keywords, organic_keywords, hazardous_keywords, general_keywords>>

AllKeywords == UNION { {ks[i] : i \in DOMAIN ks} : ks \in {keyword_lists[n] : n \in DOMAIN keyword_lists} }

label_paint_can == <<"p","a","i","n","t"," ","c","a","n">>
label_chemical_bottle == <<"C","h","e","m","i","c","a","l"," ","B","o","t","t","l","e">>
label_food_wrapper == <<"f","o","o","d","_","w","r","a","p","p","e","r">>
label_toxic_trash == <<"t","o","x","i","c"," ","t","r","a","s","h">>
label_garden_bulb == <<"g","a","r","d","e","n"," ","b","u","l","b">>

\* Labels given to normalize_class_name: the canonical names and the synonym
\* in their spellings, every keyword alone and inside a longer label, labels
\* with keywords of two lists, and labels that match nothing.
Labels ==
    UNION { Spellings(n) : n \in {RECYCLABLE, ORGANIC, HAZARDOUS, GENERAL, BIODEGRADABLE} }
    \cup { lower(k) : k \in AllKeywords }
    \cup { <<"a", "_">> \o lower(k) \o <<"_", "1">> : k \in AllKeywords }
    \cup { label_paint_can, label_chemical_bottle, label_food_wrapper,
           label_toxic_trash, label_garden_bulb }
    \cup { class_names[i] : i \in DOMAIN class_names }
    \cup { <<>>, <<" ">>, <<"\t", "\n", " ">>, <<"x","y","z">> }

\* normalized = normalize_class_name(test_class)
CallNormalize(x) ==
    /\ server = "starting"
    /\ pc = "idle"
    /\ called = NoCall
    /\ called' = "normalize_class_name"
    /\ argument' = [yolo_class_name |-> x]
    /\ returned' = [category |-> normalize_class_name(x)]
    /\ UNCHANGED <<config, pc, file, reply, detector, locals, calls, status, response, other>>

\* normalize_class_name applied to what it returned for the label
CallNormalizeAgain ==
    /\ pc = "idle"
    /\ called = "normalize_class_name"
    /\ called' = "normalize_class_name again"
    /\ argument' = argument
    /\ returned' = [category |-> normalize_class_name(returned.category)]
    /\ UNCHANGED <<config, pc, file, reply, detector, locals, calls, status, response, other>>

\* Categories given to the taxonomy lookups and to the tip generator: the
\* four symbols, and texts outside them.
WasteClasses ==
    {ORGANIC, RECYCLABLE, HAZARDOUS, GENERAL, BIODEGRADABLE, PLASTIC, field_organic, <<>>}

\* color = get_dustbin_color(category); icon = get_dustbin_icon(category)
CallDustbin(waste_class) ==
    /\ server = "starting"
    /\ pc = "idle"
    /\ called = NoCall
    /\ called' = "get_dustbin"
    /\ argument' = [waste_class |-> waste_class]
    /\ returned' = [dustbin_color |-> get_dustbin_color(waste_class),
                    dustbin_icon |-> get_dustbin_icon(waste_class)]
    /\ UNCHANGED <<config, pc, file, reply, detector, locals, calls, status, response, other>>

\* tip = generate_awareness_tip(item_name, category, confidence); the service
\* answers only where the module has a model and Gemini is enabled
CallAwarenessTip(waste_class, answer) ==
    /\ server = "starting"
    /\ pc = "idle"
    /\ called = NoCall
    /\ (tip_model = None \/ ~ENABLE_GEMINI) => answer = NoAnswer
    /\ called' = "generate_awareness_tip"
    /\ argument' = [category |-> waste_class, answer |-> answer]
    /\ returned' = generate_awareness_tip(tip_model, ENABLE_GEMINI, label_plastic_bottle,
                                          waste_class, DEFAULT_GEMINI_CONFIDENCE, answer)
    /\ UNCHANGED <<config, pc, file, reply, detector, locals, calls, status, response, other>>

(* --------------------- categories listing (app.py) --------------------- *)

\* get_categories: GET /api/categories of the backend (descriptions left out)
get_categories(threshold) ==
    [categories |->
        << [name |-> ORGANIC, dustbin_color |-> "green", icon |-> "leaf"],
           [name |-> RECYCLABLE, dustbin_color |-> "blue", icon |-> "recycle"],
           [name |-> HAZARDOUS, dustbin_color |-> "red", icon |-> "warning"] >>,
     confidence_threshold |-> threshold]

\* A client asks the backend for the categories, before or between requests.
CallGetCategories ==
    /\ server # "failed"
    /\ pc = "idle"
    /\ called = NoCall
    /\ called' = "get_categories"
    /\ argument' = [path |-> "/api/categories"]
    /\ returned' = get_categories(CONFIDENCE_THRESHOLD)
    /\ UNCHANGED <<config, pc, file, reply, detector, locals, calls, status, response, other>>

(* ------------------------------ api/index.py --------------------------- *)

api_key_set == <<"k","e","y">>

\* handler.do_GET: the body written for the path
do_GET(path, api_key) ==
    IF path \in {"/health", "/api/health"}
    THEN [status |-> "healthy", platform |-> "Vercel",
          gemini_configured |-> (api_key # None /\ api_key # <<>>)]
    ELSE IF path = "/api/categories"
    THEN [categories |->
            (ORGANIC :> [color |-> "green", icon |-> "leaf"])
            @@ (RECYCLABLE :> [color |-> "blue", icon |-> "recycle"])
            @@ (HAZARDOUS :> [color |-> "red", icon |-> "warning"])
            @@ (GENERAL :> [color |-> "grey", icon |-> "trash"])]
    ELSE [message |-> "Waste Classification API", version |-> "1.0.0",
          endpoints |-> <<"/health", "/api/classify", "/api/categories">>]

colors ==
    (ORGANIC :> "green") @@ (RECYCLABLE :> "blue") @@ (HAZARDOUS :> "red") @@ (GENERAL :> "grey")

icons ==
    (ORGANIC :> "leaf") @@ (RECYCLABLE :> "recycle") @@ (HAZARDOUS :> "warning")
    @@ (GENERAL :> "trash")

\* the result returned where there is no key, no image, or a fault
failure(error) ==
    [success |-> FALSE, error |-> error, category |-> GENERAL,
     dustbin_color |-> "grey", dustbin_icon |-> "trash"]

\* Variant of first_category_in: the categories are tried in the order of the
\* prompt.
first_category_in_prompt_order(text) ==
    IF contains(ORGANIC, text) THEN ORGANIC
    ELSE IF contains(RECYCLABLE, text) THEN RECYCLABLE
    ELSE IF contains(HAZARDOUS, text) THEN HAZARDOUS
    ELSE GENERAL

\* category = "GENERAL"; for cat in ["HAZARDOUS", "ORGANIC", "RECYCLABLE",
\* "GENERAL"]: if cat in text: category = cat; break
first_category_in(text) ==
    IF contains(HAZARDOUS, text) THEN HAZARDOUS
    ELSE IF contains(ORGANIC, text) THEN ORGANIC
    ELSE IF contains(RECYCLABLE, text) THEN RECYCLABLE
    ELSE GENERAL

\* handler._classify_image: api_key is the environment's GEMINI_API_KEY,
\* image what _extract_image and Image.open make of the body ("image", "none"
\* when no bytes are found, "fault" when either raises), answer what
\* generate_content and response.text give
_classify_image(api_key, image, answer) ==
    IF api_key = None \/ api_key = <<>>
    THEN failure("GEMINI_API_KEY not configured")
    ELSE IF image = "none" THEN failure("No image found in request")
    ELSE IF image = "fault" \/ answer.fault THEN failure("exception")
    ELSE LET text == upper(strip(answer.text))
             category_found == first_category_in(text)
         IN  [success |-> TRUE,
              category |-> category_found,
              confidence |-> 85000,
              dustbin_color |-> colors[category_found],
              dustbin_icon |-> icons[category_found],
              model_used |-> "Gemini Vision AI"]

text_hazardous == <<"h","a","z","a","r","d","o","u","s">>
text_Organic == <<" ","O","r","g","a","n","i","c",".","\n">>
text_plastic == <<"p","l","a","s","t","i","c">>

\* Replies of the model to the serverless prompt: one category in any case,
\* several categories in one reply, none, and nothing
ServerlessTexts ==
    { text_hazardous, text_Organic, RECYCLABLE, GENERAL, text_plastic, <<>>,
      RECYCLABLE \o <<" ">> \o text_hazardous,
      GENERAL \o <<",">> \o text_Organic,
      GENERAL \o <<"/">> \o RECYCLABLE }

ServerlessAnswers == {Fault} \cup { Reply(t) : t \in ServerlessTexts }

ApiKeys == {None, <<>>, api_key_set}

\* GET of the serverless handler
CallDoGet(path, api_key) ==
    /\ server = "starting"
    /\ pc = "idle"
    /\ called = NoCall
    /\ called' = "do_GET"
    /\ argument' = [path |-> path, api_key |-> api_key]
    /\ returned' = do_GET(path, api_key)
    /\ UNCHANGED <<config, pc, file, reply, detector, locals, calls, status, response, other>>

\* POST /api/classify of the serverless handler: result = self._classify_image(post_data)
CallClassifyImage(api_key, image, answer) ==
    /\ server = "starting"
    /\ pc = "idle"
    /\ called = NoCall
    /\ called' = "_classify_image"
    /\ argument' = [api_key |-> api_key, image |-> image, answer |-> answer]
    /\ returned' = _classify_image(api_key, image, answer)
    /\ UNCHANGED <<config, pc, file, reply, detector, locals, calls, status, response, other>>

NextDirect ==
    \/ \E c \in WasteClasses : CallDustbin(c)
    \/ \E c \in WasteClasses, answer \in DirectTipAnswers \cup {NoAnswer} : CallAwarenessTip(c, answer)
    \/ \E x \in Labels : CallNormalize(x)
    \/ CallNormalizeAgain
    \/ CallGetCategories
    \/ \E path \in {"/api/categories", "/health", "/"}, k \in ApiKeys : CallDoGet(path, k)
    \/ \E k \in ApiKeys, image \in {"image", "none", "fault"}, answer \in ServerlessAnswers :
          CallClassifyImage(k, image, answer)

\* The server's requests, and the direct calls made while no call is recorded.
NextWithDirectCalls ==
    \/ called = NoCall /\ Startup
    \/ called = NoCall /\ StartupFails
    \/ called = NoCall /\ \E f \in Uploads : Receive(f)
    \/ called = NoCall /\ \E answer \in PrimaryAnswers \cup {NoAnswer} : PrimaryCall(answer)
    \/ called = NoCall /\ \E answer \in DetectorAnswers : SecondaryCall(answer)
    \/ called = NoCall /\ \E answer \in TipAnswers : TipPrimary(answer)
    \/ called = NoCall /\ \E answer \in TipAnswers : TipSecondary(answer)
    \/ called = NoCall /\ Complete
    \/ NextDirect

DirectSpec == Init /\ [][NextWithDirectCalls]_vars

(* -------------------------- concurrent requests ------------------------ *)

\* Two requests of classify_waste in flight at once: the variables of the
\* request hold the one that is running, `other` the one that is waiting.
\* What the collaborators answer in these runs:
ConcurrentUploads ==
    { f \in Uploads : /\ f.size = MAX_IMAGE_SIZE
                      /\ f.decodable
                      /\ <<f.filename, f.content_type>>
                            \in {<<name_photo_PNG, type_Image_JPEG>>, <<None, None>>} }

ConcurrentPrimaryAnswers ==
    { Fault,
      Reply(pipe(pipe(HAZARDOUS, item_plastic_bottle), conf_0_95)),
      Reply(pipe(pipe(field_organic, item_plastic_bottle), conf_0_4)) }

ConcurrentDetectorAnswers ==
    { a \in DetectorAnswers :
        \/ a.results = <<>>
        \/ /\ Len(a.results[1].boxes) = 1
           /\ class_names[a.results[1].boxes[1].cls] \in {label_battery, label_food} }

ConcurrentTipAnswers == {Fault, Reply(short_tip)}

\* Variant of Switch: category, item, confidence and the safety flag are kept
\* in one place for all requests instead of in each request's frame.
Switch_shared_locals ==
    /\ other' = <<pc, file, reply, detector,
                  <<gemini, other[5][2], other[5][3], other[5][4], other[5][5]>>,
                  calls, status, response>>
    /\ pc' = other[1]
    /\ file' = other[2]
    /\ reply' = other[3]
    /\ detector' = other[4]
    /\ gemini' = other[5][1]
    /\ calls' = other[6]
    /\ status' = other[7]
    /\ response' = other[8]
    /\ UNCHANGED <<config, direct, category, detected_item, confidence, is_safe_classification>>

\* The running request is suspended where it is and the waiting one goes on:
\* each keeps the local variables of its own call of classify_waste.
Switch ==
    /\ other' = request
    /\ pc' = other[1]
    /\ file' = other[2]
    /\ reply' = other[3]
    /\ detector' = other[4]
    /\ gemini' = other[5][1]
    /\ category' = other[5][2]
    /\ detected_item' = other[5][3]
    /\ confidence' = other[5][4]
    /\ is_safe_classification' = other[5][5]
    /\ calls' = other[6]
    /\ status' = other[7]
    /\ response' = other[8]
    /\ UNCHANGED <<config, direct>>

NextConcurrent ==
    \/ Startup
    \/ StartupFails
    \/ server = "serving" /\ \E f \in ConcurrentUploads : Receive(f)
    \/ \E answer \in ConcurrentPrimaryAnswers \cup {NoAnswer} : PrimaryCall(answer)
    \/ \E answer \in ConcurrentDetectorAnswers : SecondaryCall(answer)
    \/ \E answer \in ConcurrentTipAnswers : TipPrimary(answer)
    \/ \E answer \in ConcurrentTipAnswers : TipSecondary(answer)
    \/ Complete
    \/ Switch

ConcurrentSpec == Init /\ [][NextConcurrent]_vars

(* ------------------------------ properties ----------------------------- *)

Categories == {ORGANIC, RECYCLABLE, HAZARDOUS, GENERAL}

\* The request has been answered with a structured (2xx) response.
Answered == pc = "done" /\ status = 200

\* The paths of an answered request, by the collaborators it invoked.
PrimaryPath == calls = <<"primary", "tip">>
SecondaryPath == calls = <<"primary", "secondary", "tip">>
NoDetectionPath == calls = <<"primary", "secondary">>

\* The boxes the detector returned (where it returned some).
detected_boxes == detector.results[1].boxes

\* C1: on the secondary path, a selected confidence below the configured
\* threshold gives category HAZARDOUS and is_safe_classification = false,
\* whatever the native label: when every box is below the threshold (so the
\* selected one is), the handler holds HAZARDOUS and not-safe, and the
\* response built from a selected confidence below the threshold says so.
C1_BelowThresholdIsHazardous ==
    /\ (/\ pc = "tip_secondary"
        /\ \A i \in DOMAIN detected_boxes : detected_boxes[i].conf < CONFIDENCE_THRESHOLD)
       => (category = HAZARDOUS /\ ~is_safe_classification)
    /\ (pc = "done" /\ SecondaryPath /\ confidence < CONFIDENCE_THRESHOLD)
       => /\ status = 200
          /\ response.category = HAZARDOUS
          /\ response.is_safe_classification = FALSE

\* C1 happens: a detection whose label normalizes to ORGANIC, below the
\* threshold, answered as HAZARDOUS.
C1_Witness ==
    /\ Answered /\ SecondaryPath
    /\ confidence < CONFIDENCE_THRESHOLD
    /\ normalize_class_name(response.detected_item) = ORGANIC
    /\ response.category = HAZARDOUS
    /\ response.is_safe_classification = FALSE

\* C2: every structured (2xx) response carries a category that is one of
\* ORGANIC, RECYCLABLE, HAZARDOUS, GENERAL, on every path.
C2_CategoryIsOneOfFour ==
    status = 200 => ("category" \in DOMAIN response /\ response.category \in Categories)

\* C2 happens: the primary named a category outside the taxonomy and the
\* response still carries one of the four.
C2_Witness ==
    /\ Answered /\ PrimaryPath
    /\ ~reply.fault
    /\ upper(strip(split(strip(reply.text), "|")[1])) = PLASTIC
    /\ response.category \in Categories

\* C3: is_safe_classification is true in every primary-path response, and in
\* every secondary-path response whose selected confidence is at or above the
\* threshold; the latter's category is the normalized native label.
C3_SafeAtOrAboveThreshold ==
    /\ (Answered /\ PrimaryPath) => response.is_safe_classification = TRUE
    /\ (pc = "done" /\ SecondaryPath /\ confidence >= CONFIDENCE_THRESHOLD)
       => /\ status = 200
          /\ response.is_safe_classification = TRUE
          /\ response.category = normalize_class_name(response.detected_item)

\* C3 happens: a selected confidence equal to the threshold, answered as safe
\* with a category other than HAZARDOUS.
C3_Witness ==
    /\ Answered /\ SecondaryPath
    /\ confidence = CONFIDENCE_THRESHOLD
    /\ response.is_safe_classification = TRUE
    /\ response.category = RECYCLABLE

\* C4: a null primary result and zero detections give the hard unsafe-default
\* as a structured response: success false, HAZARDOUS, confidence 0.0, red,
\* warning, not safe, no detected item, the fixed explanation.
C4_NoDetectionDefault ==
    (/\ pc = "done" /\ NoDetectionPath
     /\ ~detector.fault
     /\ (detector.results = <<>> \/ detected_boxes = <<>>))
    => /\ status = 200
       /\ response.success = FALSE
       /\ response.category = HAZARDOUS
       /\ response.confidence = 0
       /\ response.dustbin_color = "red"
       /\ response.dustbin_icon = "warning"
       /\ response.is_safe_classification = FALSE
       /\ response.detected_item = None
       /\ response.explanation.kind = "fixed"

\* C4 happens: the primary replied without a usable answer and the detector
\* returned a result with no boxes.
C4_Witness ==
    /\ pc = "done" /\ NoDetectionPath
    /\ ~reply.fault /\ gemini = null_attempt
    /\ ~detector.fault
    /\ detector.results # <<>> /\ detected_boxes = <<>>
    /\ status = 200 /\ response.category = HAZARDOUS


InCalls(c) == \E i \in DOMAIN calls : calls[i] = c

\* The primary was asked and replied; the fields of the reply as the reply
\* gives them, read without the handler's defaults.
PrimaryReplied == InCalls("primary") /\ vision_model # None /\ ~reply.fault
reply_fields == split(strip(reply.text), "|")
reply_category == upper(strip(reply_fields[1]))
reply_confidence == float(strip(reply_fields[3]))

\* The taxonomy table: bin colour and icon of each category.
BinColor(c) ==
    CASE c = ORGANIC -> "green" [] c = RECYCLABLE -> "blue"
      [] c = HAZARDOUS -> "red" [] c = GENERAL -> "grey"
BinIcon(c) ==
    CASE c = ORGANIC -> "leaf" [] c = RECYCLABLE -> "recycle"
      [] c = HAZARDOUS -> "warning" [] c = GENERAL -> "trash"

\* C5: a fault of either classifier is treated as its null result and never
\* reaches the caller: after a fault of the primary the secondary is invoked,
\* and a fault of the secondary gives the hard unsafe-default with status 2xx.
C5_ClassifierFaultsAreAbsorbed ==
    /\ (InCalls("primary") /\ reply.fault)
       => /\ gemini = null_attempt
          /\ (pc = "secondary" \/ InCalls("secondary"))
    /\ (pc = "done" /\ InCalls("secondary") /\ detector.fault)
       => /\ status = 200
          /\ response = no_detection_response

\* C6 as claimed: for each of the four categories C and every confidence
\* above 0, a reply whose category is C is answered with category C and C's
\* bin colour and icon.
C6_PrimaryCategoryKeptForAllFour ==
    (/\ pc = "done" /\ PrimaryReplied
     /\ Len(reply_fields) >= 3
     /\ reply_category \in Categories
     /\ gemini[3] > 0)
    => /\ Answered /\ PrimaryPath
       /\ response.category = reply_category
       /\ response.dustbin_color = BinColor(reply_category)
       /\ response.dustbin_icon = BinIcon(reply_category)

\* C6 as amended: the same for ORGANIC, RECYCLABLE and HAZARDOUS, at every
\* confidence above 0 with no threshold applied; a reply naming GENERAL, or
\* anything else, is answered as HAZARDOUS, red, warning.
C6_PrimaryCategoryKeptForThree ==
    (/\ pc = "done" /\ PrimaryReplied
     /\ Len(reply_fields) >= 3
     /\ gemini[3] > 0)
    => LET expected == IF reply_category \in {ORGANIC, RECYCLABLE, HAZARDOUS}
                       THEN reply_category ELSE HAZARDOUS
       IN  /\ Answered /\ PrimaryPath
           /\ response.category = expected
           /\ response.dustbin_color = BinColor(expected)
           /\ response.dustbin_icon = BinIcon(expected)
           /\ response.is_safe_classification = TRUE

\* C6 happens: the primary named ORGANIC with a confidence below the
\* threshold and the response is ORGANIC, green, leaf.
C6_Witness ==
    /\ Answered /\ PrimaryPath
    /\ reply_category = ORGANIC
    /\ reply_confidence.ok
    /\ reply_confidence.v > 0
    /\ reply_confidence.v < CONFIDENCE_THRESHOLD
    /\ response.category = ORGANIC
    /\ response.dustbin_color = "green"
    /\ response.dustbin_icon = "leaf"

\* C7: the secondary is invoked if and only if the primary was invoked first
\* and returned a null result (no category, or a confidence not above 0); it
\* is never invoked before the primary, nor after a primary result with a
\* category and a confidence above 0.
C7_SecondaryIffPrimaryNull ==
    /\ \A i \in DOMAIN calls :
          calls[i] = "secondary" => (i = 2 /\ calls[1] = "primary")
    /\ InCalls("secondary") => (gemini[1] = None \/ gemini[3] <= 0)
    /\ (pc = "done" /\ InCalls("primary") /\ (gemini[1] = None \/ gemini[3] <= 0))
       => InCalls("secondary")

\* C7 happens: the primary returned a category with confidence 0 and the
\* secondary was invoked after it.
C7_Witness ==
    /\ pc = "done"
    /\ gemini[1] = ORGANIC /\ gemini[3] = 0
    /\ calls = <<"primary", "secondary", "tip">>

\* C8 as claimed: a reply that is empty, has fewer than three fields, has a
\* confidence that is not a number or a category outside the taxonomy is a
\* null attempt, and classify falls back to the secondary.
C8_UnparseableReplyIsNull ==
    (/\ PrimaryReplied
     /\ \/ reply.text = <<>>
        \/ Len(reply_fields) < 3
        \/ ~reply_confidence.ok
        \/ reply_category \notin Categories)
    => /\ gemini = null_attempt
       /\ pc # "tip_primary"
       /\ pc = "done" => InCalls("secondary")

\* C8 as amended: an empty reply and a reply of fewer than three fields are
\* null attempts and classify falls back to the secondary; in a reply of
\* three or more fields a confidence that is not a number is read as 0.85 and
\* a category other than ORGANIC, RECYCLABLE, HAZARDOUS is read as HAZARDOUS,
\* and the primary's result is used.
C8_ShortReplyIsNullOthersDefaulted ==
    /\ (PrimaryReplied /\ (reply.text = <<>> \/ Len(reply_fields) < 3))
       => /\ gemini = null_attempt
          /\ pc # "tip_primary"
          /\ pc = "done" => InCalls("secondary")
    /\ (PrimaryReplied /\ Len(reply_fields) >= 3 /\ ~reply_confidence.ok)
       => /\ gemini[3] = DEFAULT_GEMINI_CONFIDENCE
          /\ ~InCalls("secondary")
    /\ (PrimaryReplied /\ Len(reply_fields) >= 3
        /\ reply_category \notin {ORGANIC, RECYCLABLE, HAZARDOUS})
       => gemini[1] = HAZARDOUS

\* C8 happens: a reply of two fields, and the request went on to the secondary.
C8_Witness ==
    /\ pc = "done" /\ PrimaryReplied
    /\ reply.text # <<>>
    /\ Len(reply_fields) = 2
    /\ gemini = null_attempt
    /\ InCalls("secondary")

\* The upload passes the size and type checks of a loaded server.
PassesValidation ==
    /\ file.size <= MAX_IMAGE_SIZE
    /\ validate_image_format(file.filename) \/ is_valid_by_type(file.content_type)

\* C9: an image that cannot be read or decoded fails with a server error that
\* carries no category, and no classifier and no tip generator is invoked.
C9_UndecodableImageIsServerError ==
    (pc # "idle" /\ ~file.decodable)
    => /\ pc = "done"
       /\ calls = <<>>
       /\ status \in {400, 413, 500}
       /\ PassesValidation => status = 500
       /\ "category" \notin DOMAIN response

\* C9 happens: a loaded server, an upload that passes validation and cannot
\* be decoded.
C9_Witness ==
    /\ pc = "done" /\ model # None
    /\ PassesValidation /\ ~file.decodable
    /\ status = 500 /\ calls = <<>>

\* C10 as claimed (on a loaded server, for an image that decodes): an upload
\* over the size cap, or whose MIME type is not an accepted image type, is
\* rejected with a 4xx status, and no classifier and no tip generator is
\* invoked for it.
C10_BadMimeOrOversizeRejected ==
    (/\ pc # "idle" /\ model # None /\ file.decodable
     /\ (file.size > MAX_IMAGE_SIZE \/ ~is_valid_by_type(file.content_type)))
    => /\ calls = <<>>
       /\ pc = "done" => status \in {400, 413}

\* C10 as amended: on a loaded server an upload over the size cap is rejected
\* with 413, and one within the cap is rejected with 400 exactly when neither
\* its MIME type is an accepted image type nor its file name has an accepted
\* image extension; no rejected request invokes a classifier or the tip
\* generator.
C10_OversizeOrNeitherNameNorTypeRejected ==
    /\ (pc # "idle" /\ model # None /\ file.size > MAX_IMAGE_SIZE)
       => (pc = "done" /\ status = 413)
    /\ (/\ pc # "idle" /\ model # None /\ file.size <= MAX_IMAGE_SIZE
        /\ ~is_valid_by_type(file.content_type)
        /\ ~validate_image_format(file.filename))
       => (pc = "done" /\ status = 400)
    /\ (pc # "idle" /\ model # None /\ PassesValidation) => status \notin {400, 413}
    /\ status \in {400, 413} => (pc = "done" /\ calls = <<>>)

\* C10 happens: an upload with neither an image's name nor an image's type is
\* rejected with 400.
C10_Witness ==
    /\ pc = "done" /\ status = 400
    /\ file.size <= MAX_IMAGE_SIZE
    /\ file.filename = name_doc_pdf
    /\ file.content_type = type_text_plain
    /\ calls = <<>>

\* C11: with one or more detections, the detection used is one of highest
\* confidence and the first of those in the detector's output order, and the
\* confidence, the detected item and the label that is normalized are all
\* that detection's; the response carries that confidence and that item.
C11_FirstHighestDetectionIsUsed ==
    /\ pc = "tip_secondary" =>
          \E i \in DOMAIN detected_boxes :
              /\ \A j \in DOMAIN detected_boxes :
                    detected_boxes[j].conf <= detected_boxes[i].conf
              /\ \A j \in DOMAIN detected_boxes :
                    detected_boxes[j].conf = detected_boxes[i].conf => i <= j
              /\ confidence = detected_boxes[i].conf
              /\ detected_item = class_names[detected_boxes[i].cls]
              /\ category = IF confidence >= CONFIDENCE_THRESHOLD
                            THEN normalize_class_name(class_names[detected_boxes[i].cls])
                            ELSE HAZARDOUS
    /\ (Answered /\ SecondaryPath) =>
          /\ response.confidence = confidence
          /\ response.detected_item = detected_item
          /\ response.category = category

\* C11 happens: two detections share the highest confidence, the first a
\* battery and the second food; the battery is the detection used.
C11_Witness ==
    /\ pc = "tip_secondary"
    /\ Len(detected_boxes) = 2
    /\ detected_boxes[1].conf = detected_boxes[2].conf
    /\ class_names[detected_boxes[1].cls] = label_battery
    /\ class_names[detected_boxes[2].cls] = label_food
    /\ confidence >= CONFIDENCE_THRESHOLD
    /\ detected_item = label_battery
    /\ category = HAZARDOUS

\* C12: every response built from a classifier's answer names the classifier
\* it came from in its model field: the primary on the primary path, the
\* secondary on the secondary path.
C12_ResponseNamesItsClassifier ==
    /\ (Answered /\ PrimaryPath) =>
          /\ "model_used" \in DOMAIN response
          /\ response.model_used = "Gemini Vision AI"
    /\ (Answered /\ SecondaryPath) =>
          /\ "model_used" \in DOMAIN response
          /\ response.model_used # "Gemini Vision AI"

\* C13: each of the four canonical names, in any letter case and with any
\* surrounding whitespace, normalizes to that category, and BIODEGRADABLE so
\* written normalizes to ORGANIC, whose bin colour is green; and normalizing
\* what normalize returned gives the same again.
C13_CanonicalNamesAndIdempotence ==
    /\ called = "normalize_class_name" =>
          /\ \A n \in Categories :
                argument.yolo_class_name \in Spellings(n) => returned.category = n
          /\ argument.yolo_class_name \in Spellings(BIODEGRADABLE) =>
                /\ returned.category = ORGANIC
                /\ get_dustbin_color(returned.category) = "green"
    /\ called = "normalize_class_name again" =>
          returned.category = normalize_class_name(argument.yolo_class_name)

\* C13 happens: BIODEGRADABLE in lower case between whitespace was
\* normalized, and the result normalized again, to ORGANIC.
C13_Witness ==
    /\ called = "normalize_class_name again"
    /\ argument.yolo_class_name = <<" ">> \o lower(BIODEGRADABLE) \o <<"\n">>
    /\ returned.category = ORGANIC

\* The label contains, in any letter case, one of the keywords.
Mentions(keywords, label) ==
    \E i \in DOMAIN keywords : contains(keywords[i], upper(label))

\* The keyword lists the label has a keyword of, and the category of each list.
MentionedLists(label) == {n \in DOMAIN keyword_lists : Mentions(keyword_lists[n], label)}
CategoryOfList == <<RECYCLABLE, ORGANIC, HAZARDOUS, GENERAL>>

\* The label contains, in any letter case, a canonical category name.
NamesACategory(label) == \E n \in Categories : contains(n, upper(label))

\* C14: a label that contains a keyword of exactly one category's list, no
\* keyword of the other three and no canonical category name normalizes to
\* that category.
C14_KeywordOfOneListDecides ==
    (/\ called = "normalize_class_name"
     /\ Cardinality(MentionedLists(argument.yolo_class_name)) = 1
     /\ ~NamesACategory(argument.yolo_class_name))
    => \A n \in MentionedLists(argument.yolo_class_name) :
          returned.category = CategoryOfList[n]

\* C14 happens: "plastic_bottle", which holds keywords of the recyclable list
\* only, was normalized to RECYCLABLE.
C14_Witness ==
    /\ called = "normalize_class_name"
    /\ argument.yolo_class_name = label_plastic_bottle
    /\ MentionedLists(label_plastic_bottle) = {1}
    /\ ~NamesACategory(label_plastic_bottle)
    /\ returned.category = RECYCLABLE

\* C15: a label that is not a canonical name or the synonym and contains
\* keywords of more than one list normalizes to the category of the first of
\* those lists in the order RECYCLABLE, ORGANIC, HAZARDOUS, GENERAL; a label
\* with a recyclable and a hazardous keyword normalizes to RECYCLABLE.
C15_FirstListInFixedOrderWins ==
    (/\ called = "normalize_class_name"
     /\ \A n \in Categories \cup {BIODEGRADABLE} :
           argument.yolo_class_name \notin Spellings(n)
     /\ Cardinality(MentionedLists(argument.yolo_class_name)) > 1)
    => /\ \E n \in MentionedLists(argument.yolo_class_name) :
             /\ \A m \in MentionedLists(argument.yolo_class_name) : n <= m
             /\ returned.category = CategoryOfList[n]
       /\ {1, 3} \subseteq MentionedLists(argument.yolo_class_name) =>
             returned.category = RECYCLABLE

\* C15 happens: "paint can", with a hazardous keyword before a recyclable
\* one, was normalized to RECYCLABLE.
C15_Witness ==
    /\ called = "normalize_class_name"
    /\ argument.yolo_class_name = label_paint_can
    /\ MentionedLists(label_paint_can) = {1, 3}
    /\ returned.category = RECYCLABLE

\* C16: for every text label, the empty and the whitespace-only ones
\* included, normalize returns one of the four categories, and GENERAL when
\* the label is no canonical name, not the synonym and holds no keyword; so a
\* detection with such a label and a confidence at or above the threshold
\* has category GENERAL and is_safe_classification = true.
C16_TotalWithGeneralDefault ==
    /\ called = "normalize_class_name" =>
          /\ returned.category \in Categories
          /\ MentionedLists(argument.yolo_class_name) = {} => returned.category = GENERAL
    /\ (/\ Answered /\ SecondaryPath
        /\ MentionedLists(response.detected_item) = {}
        /\ confidence >= CONFIDENCE_THRESHOLD)
       => /\ response.category = GENERAL
          /\ response.is_safe_classification = TRUE

\* C16 happens: a detection labelled "unknown_item" with a confidence at or
\* above the threshold came out as GENERAL and safe.
C16_Witness ==
    /\ Answered /\ SecondaryPath
    /\ response.detected_item = label_unknown_item
    /\ confidence >= CONFIDENCE_THRESHOLD
    /\ response.category = GENERAL
    /\ response.is_safe_classification = TRUE

\* C17: in every structured response, on every path, the bin colour and the
\* icon are the taxonomy table's entry for the response's final category;
\* where the threshold made the category HAZARDOUS they are red and warning.
C17_BinMatchesFinalCategory ==
    /\ status = 200 =>
          /\ response.dustbin_color = BinColor(response.category)
          /\ response.dustbin_icon = BinIcon(response.category)
    /\ (Answered /\ SecondaryPath /\ confidence < CONFIDENCE_THRESHOLD) =>
          /\ response.dustbin_color = "red"
          /\ response.dustbin_icon = "warning"

\* C17 happens: food detected below the threshold is answered as HAZARDOUS
\* with red and warning, not ORGANIC's green and leaf.
C17_Witness ==
    /\ Answered /\ SecondaryPath
    /\ response.detected_item = label_food
    /\ confidence < CONFIDENCE_THRESHOLD
    /\ response.category = HAZARDOUS
    /\ response.dustbin_color = "red"
    /\ response.dustbin_icon = "warning"

\* C19: safety_warning is empty in every primary-path response, whatever the
\* confidence; in a secondary-path response with detections it is the strong
\* warning naming HAZARDOUS below 0.5, the mild warning asking to verify from
\* 0.5 up to but not including 0.7, and empty from 0.7 on.
C19_SafetyWarningTiers ==
    /\ (Answered /\ PrimaryPath) => response.safety_warning = ""
    /\ (Answered /\ SecondaryPath) =>
          response.safety_warning =
             IF confidence < 50000
             THEN "Low confidence detection. When unsure, treat as HAZARDOUS waste for safety."
             ELSE IF confidence < 70000
             THEN "Uncertain classification. Please verify or consult local waste guidelines."
             ELSE ""

\* C19 happens: a detection of confidence exactly 0.5 carries the mild warning.
C19_Witness ==
    /\ Answered /\ SecondaryPath
    /\ confidence = 50000
    /\ response.safety_warning =
          "Uncertain classification. Please verify or consult local waste guidelines."

\* C18: for every input outside the four category symbols the lookups of bin
\* colour and icon return, and what they return is not GENERAL's grey and
\* trash: an unknown category is presented as HAZARDOUS, red and warning.
C18_UnknownCategoryIsPresentedAsHazardous ==
    /\ (called = "get_dustbin" /\ argument.waste_class \notin Categories) =>
          /\ returned.dustbin_color # "grey"
          /\ returned.dustbin_icon # "trash"
    /\ (/\ called = "get_dustbin"
        /\ upper(argument.waste_class) \notin Categories \cup {BIODEGRADABLE}) =>
          /\ returned.dustbin_color = "red"
          /\ returned.dustbin_icon = "warning"

\* The generative service gave no tip: it is disabled or not configured, it
\* raised, or its reply was empty.
NoGeneratedTip(answer) ==
    \/ tip_model = None
    \/ ~ENABLE_GEMINI
    \/ answer.fault
    \/ answer.text = <<>>

\* C20: where the generative service is disabled or not configured, raises or
\* replies with nothing, the tip is the static fallback of the category, whole,
\* and the "unidentified item" template when the category is none of the
\* four; a request whose tip was asked for is answered with status 200, and
\* with the fallback of its category where the service is unavailable.
C20_FallbackTipOnAnyFailure ==
    /\ (called = "generate_awareness_tip" /\ NoGeneratedTip(argument.answer)) =>
          /\ returned.kind = "fallback"
          /\ returned.key = IF argument.category \in Categories
                            THEN argument.category ELSE UNIDENTIFIED
    /\ (pc = "done" /\ InCalls("tip")) =>
          /\ status = 200
          /\ (tip_model = None \/ ~ENABLE_GEMINI) =>
                (response.explanation.kind = "fallback"
                 /\ response.explanation.key = response.category)

\* C20 happens: the service raised while asked for a tip on a category that
\* is none of the four, and the "unidentified item" template came back.
C20_Witness ==
    /\ called = "generate_awareness_tip"
    /\ tip_model # None /\ ENABLE_GEMINI
    /\ argument.answer.fault
    /\ argument.category = PLASTIC
    /\ returned.kind = "fallback"
    /\ returned.key = UNIDENTIFIED

\* The generative service replied with a tip: it is configured and enabled,
\* it did not raise and its reply is not empty.
GeneratedTip(answer) == ~NoGeneratedTip(answer)

\* C21 as claimed: a reply of the generative service longer than 250
\* characters is returned as its first 247 characters and a 3-character
\* ellipsis, 250 in all; a reply of 250 characters or fewer is returned
\* unchanged; so no generated explanation is longer than 250.
C21_LongTipCutShortTipUnchanged ==
    /\ (called = "generate_awareness_tip" /\ GeneratedTip(argument.answer)) =>
          /\ returned.kind = "generated"
          /\ Len(argument.answer.text) > 250 =>
                /\ returned.text = SubSeq(argument.answer.text, 1, 247) \o <<".", ".", ".">>
                /\ Len(returned.text) = 250
          /\ Len(argument.answer.text) <= 250 => returned.text = argument.answer.text
    /\ (Answered /\ InCalls("tip") /\ response.explanation.kind = "generated") =>
          Len(response.explanation.text) <= 250

\* C21 as amended: the same of the reply with the whitespace around it
\* removed: it is that text which is measured, cut to 247 characters and the
\* ellipsis when longer than 250, and returned as it is otherwise (the empty
\* text for a reply of whitespace only).
C21_StrippedTipCutAt250 ==
    /\ (called = "generate_awareness_tip" /\ GeneratedTip(argument.answer)) =>
          LET tip == strip(argument.answer.text)
          IN  /\ returned.kind = "generated"
              /\ Len(tip) > 250 =>
                    /\ returned.text = SubSeq(tip, 1, 247) \o <<".", ".", ".">>
                    /\ Len(returned.text) = 250
              /\ Len(tip) <= 250 => returned.text = tip
    /\ (Answered /\ InCalls("tip") /\ response.explanation.kind = "generated") =>
          Len(response.explanation.text) <= 250

\* C21 happens: a tip of 300 characters came back as 250, ending in the ellipsis.
C21_Witness ==
    /\ called = "generate_awareness_tip"
    /\ GeneratedTip(argument.answer)
    /\ Len(argument.answer.text) = 300
    /\ Len(returned.text) = 250
    /\ SubSeq(returned.text, 248, 250) = <<".", ".", ".">>


\* How many times a collaborator was invoked in the request so far.
Invocations(c) == Cardinality({ i \in DOMAIN calls : calls[i] = c })

\* C22: within one classify request the primary classifier, the secondary
\* classifier and the tip generator are each invoked at most once, with no
\* second attempt after a fault; the tip generator is invoked exactly once
\* when the primary succeeded and when the secondary returned detections, and
\* never when the secondary returned none (the hard unsafe-default).
C22_EachCollaboratorAtMostOnce ==
    /\ \A c \in {"primary", "secondary", "tip"} : Invocations(c) <= 1
    /\ (InCalls("primary") /\ reply.fault)
       => (~primary_succeeded(gemini) /\ pc # "primary")
    /\ (InCalls("secondary") /\ detector.fault)
       => (pc = "done" /\ status = 500 /\ calls = <<"primary", "secondary">>)
    /\ (Answered /\ primary_succeeded(gemini)) => calls = <<"primary", "tip">>
    /\ (Answered /\ ~primary_succeeded(gemini) /\ response.success)
       => calls = <<"primary", "secondary", "tip">>
    /\ pc = "tip_secondary" => (has_detections(detector.results) /\ ~InCalls("tip"))
    /\ (Answered /\ ~response.success)
       => /\ calls = <<"primary", "secondary">>
          /\ ~has_detections(detector.results)
          /\ response = no_detection_response

\* C22 happens: the primary raised, the secondary was asked once and found
\* an item, and the one tip request raised as well; the request is answered
\* after exactly one invocation of each.
C22_Witness ==
    /\ Answered
    /\ reply.fault
    /\ calls = <<"primary", "secondary", "tip">>
    /\ response.explanation.kind = "fallback"


\* What does not change once the server serves: the loaded model handle,
\* the threshold, and the Gemini flag and handles made from the credentials
\* (the upload size cap MAX_IMAGE_SIZE is a constant of the model).
settings == <<model, CONFIDENCE_THRESHOLD, ENABLE_GEMINI, vision_model, tip_model>>

\* The running request holds what its own upload, the answers given to it
\* and the settings determine, at each position of classify_waste.
OwnResult ==
    /\ InCalls("primary") => gemini = classify_with_gemini_vision(vision_model, reply)
    /\ pc = "tip_primary"
       => <<category, detected_item, confidence, is_safe_classification>>
             = <<gemini[1], gemini[2], gemini[3], TRUE>>
    /\ pc = "tip_secondary"
       => LET box == detected_boxes[argmax(detected_boxes)]
          IN  /\ detected_item = class_names[box.cls]
              /\ confidence = box.conf
    /\ (pc = "tip_secondary" \/ (pc = "done" /\ calls = <<"primary", "secondary", "tip">>))
       => /\ is_safe_classification = is_safe(confidence, CONFIDENCE_THRESHOLD)
          /\ category = gated_category(detected_item, is_safe_classification)
    /\ (pc = "done" /\ calls = <<>>)
       => /\ status = upload_status(model, file)
          /\ response = HTTPException(upload_detail(model, file))
    /\ (pc = "done" /\ calls = <<"primary", "tip">>)
       => /\ status = 200
          /\ \E answer \in ConcurrentTipAnswers :
                response = primary_response(gemini[1], gemini[2], gemini[3],
                              generate_awareness_tip(tip_model, ENABLE_GEMINI, gemini[2],
                                                     gemini[1], gemini[3], answer))
    /\ (pc = "done" /\ calls = <<"primary", "secondary">>)
       => IF detector.fault
          THEN status = 500 /\ response = HTTPException("Error processing image")
          ELSE status = 200 /\ response = no_detection_response
    /\ (pc = "done" /\ calls = <<"primary", "secondary", "tip">>)
       => /\ status = 200
          /\ \E answer \in ConcurrentTipAnswers :
                response = secondary_response(category, detected_item, confidence,
                              is_safe_classification,
                              generate_awareness_tip(tip_model, ENABLE_GEMINI, detected_item,
                                                     category, confidence, answer))

\* C23: classify requests are independent: with two requests in flight and
\* any interleaving of their steps, the result of each (status and every
\* field of the response) is what its own upload, the answers the
\* collaborators gave to it and the settings determine, and no step of a
\* request changes the model handle, the threshold or the Gemini handles.
C23_RequestsIndependent ==
    /\ []OwnResult
    /\ [][(pc # "idle" \/ pc' # "idle" \/ other # NoRequest) => UNCHANGED settings]_vars

\* C23 happens: a request was answered from the primary's reply while
\* another, whose primary raised and whose detector found a different item,
\* waits between its detector call and its tip.
C23_Witness ==
    /\ Answered /\ PrimaryPath
    /\ response.category = ORGANIC
    /\ other[1] = "tip_secondary"
    /\ other[3] = Fault
    /\ other[5][2] = HAZARDOUS
    /\ other[5][3] = label_battery


\* C24: each categories listing holds all four categories ORGANIC,
\* RECYCLABLE, HAZARDOUS and GENERAL, each with the bin colour and icon that
\* classify uses for it (green/leaf, blue/recycle, red/warning, grey/trash).
C24_CategoriesListIsTheTaxonomy ==
    /\ called = "get_categories"
       => \A c \in Categories :
             \E i \in DOMAIN returned.categories :
                /\ returned.categories[i].name = c
                /\ returned.categories[i].dustbin_color = get_dustbin_color(c)
                /\ returned.categories[i].icon = get_dustbin_icon(c)
    /\ (called = "do_GET" /\ argument.path = "/api/categories")
       => /\ DOMAIN returned.categories = Categories
          /\ \A c \in Categories :
                /\ returned.categories[c].color = get_dustbin_color(c)
                /\ returned.categories[c].icon = get_dustbin_icon(c)


\* C25: in every structured response whose is_safe_classification is false
\* the safety warning is a non-empty string, where the configured threshold
\* is at most 0.7; and a secondary result whose confidence is at or above the
\* threshold and below 0.7 is safe and carries a non-empty warning all the
\* same (so a warning does not imply an unsafe classification).
C25_UnsafeResponseCarriesWarning ==
    /\ (/\ status = 200
        /\ response.is_safe_classification = FALSE
        /\ CONFIDENCE_THRESHOLD <= UNCERTAIN_CONFIDENCE)
       => response.safety_warning # ""
    /\ (/\ Answered /\ SecondaryPath
        /\ CONFIDENCE_THRESHOLD <= confidence
        /\ confidence < UNCERTAIN_CONFIDENCE)
       => /\ response.is_safe_classification = TRUE
          /\ response.safety_warning # ""

\* C25 happens: a detection of 0.5 under the threshold 0.65, answered as not
\* safe with the warning of the uncertain tier.
C25_Witness ==
    /\ Answered /\ SecondaryPath
    /\ confidence = LOW_CONFIDENCE
    /\ CONFIDENCE_THRESHOLD = DEFAULT_CONFIDENCE_THRESHOLD
    /\ response.is_safe_classification = FALSE
    /\ response.safety_warning =
          "Uncertain classification. Please verify or consult local waste guidelines."

\* The case of C25's second half: a safe secondary result with a warning.
C25_SafeWithWarning ==
    /\ Answered /\ SecondaryPath
    /\ CONFIDENCE_THRESHOLD <= confidence
    /\ confidence < UNCERTAIN_CONFIDENCE
    /\ response.is_safe_classification = TRUE
    /\ response.safety_warning # ""

\* C26: the confidence of every structured response lies between 0.0 and
\* 1.0; on the primary path it is greater than 0 and at most 0.99 whatever
\* the reply's number (above 0.99 it is capped, at 0 or below the reply is a
\* null result), on the secondary path it is the selected detection's
\* confidence, and on the hard unsafe-default path it is 0.0.
C26_ConfidenceInRange ==
    /\ status = 200 => (response.confidence >= 0 /\ response.confidence <= one)
    /\ (Answered /\ PrimaryPath)
       => (response.confidence > 0 /\ response.confidence <= MAX_GEMINI_CONFIDENCE)
    /\ (/\ pc = "done" /\ PrimaryReplied
        /\ Len(reply_fields) >= 3 /\ reply_confidence.ok)
       => /\ reply_confidence.v > MAX_GEMINI_CONFIDENCE
             => (PrimaryPath /\ response.confidence = MAX_GEMINI_CONFIDENCE)
          /\ reply_confidence.v <= 0 => (gemini[3] <= 0 /\ calls[2] = "secondary")
    /\ pc = "tip_secondary"
       => confidence = detected_boxes[argmax(detected_boxes)].conf
    /\ (Answered /\ SecondaryPath) => response.confidence = confidence
    /\ (Answered /\ NoDetectionPath) => response.confidence = 0

\* C26 as the code has it: the confidence the handler holds on the primary
\* path is greater than 0 and at most 0.99 (capped above 0.99; a reply of 0 or
\* less is a null result), and on the secondary path it is the selected
\* detection's; the response carries it rounded to four decimal places, so
\* the response's confidence is at least 0.0 (0.0 for a reply below 0.00005)
\* and at most 0.99 on the primary path, the rounded detection confidence on
\* the secondary path and 0.0 on the hard unsafe-default path, and always
\* between 0.0 and 1.0.
C26_RoundedConfidenceInRange ==
    /\ status = 200 => (response.confidence >= 0 /\ response.confidence <= one)
    /\ (pc = "tip_primary" \/ (pc = "done" /\ PrimaryPath))
       => (confidence > 0 /\ confidence <= MAX_GEMINI_CONFIDENCE)
    /\ (Answered /\ PrimaryPath)
       => /\ response.confidence = round4(confidence)
          /\ response.confidence >= 0
          /\ response.confidence <= MAX_GEMINI_CONFIDENCE
          /\ response.confidence = 0 <=> confidence < 5
    /\ (/\ pc = "done" /\ PrimaryReplied
        /\ Len(reply_fields) >= 3 /\ reply_confidence.ok)
       => /\ reply_confidence.v > MAX_GEMINI_CONFIDENCE
             => (PrimaryPath /\ response.confidence = MAX_GEMINI_CONFIDENCE)
          /\ reply_confidence.v <= 0 => (gemini[3] <= 0 /\ calls[2] = "secondary")
    /\ pc = "tip_secondary"
       => confidence = detected_boxes[argmax(detected_boxes)].conf
    /\ (Answered /\ SecondaryPath) => response.confidence = round4(confidence)
    /\ (Answered /\ NoDetectionPath) => response.confidence = 0

\* C26 happens: the reply's confidence 1.5 is answered as 0.99.
C26_Witness ==
    /\ Answered /\ PrimaryPath
    /\ PrimaryReplied
    /\ reply_confidence.ok /\ reply_confidence.v = 150000
    /\ response.confidence = MAX_GEMINI_CONFIDENCE

\* C27: a request that arrives while the model handle is not loaded fails
\* with status 500 before its upload is validated and without any call of the
\* primary, the secondary or the tip generator, whatever the upload and
\* whether or not the primary is configured; no collaborator is ever called
\* without the handle, and the handle is loaded by startup only.
C27_ModelLoadedBeforeUse ==
    /\ (pc # "idle" /\ model = None)
       => /\ pc = "done"
          /\ status = 500
          /\ response = HTTPException("Model not loaded")
          /\ calls = <<>>
    /\ calls # <<>> => model = YOLO
    /\ model = YOLO <=> server = "serving"

\* C27 happens: an upload over the size cap, with the primary configured,
\* refused for the missing model and not for its size.
C27_Witness ==
    /\ pc = "done"
    /\ model = None
    /\ vision_model # None
    /\ file.size > MAX_IMAGE_SIZE
    /\ status = 500
    /\ response = HTTPException("Model not loaded")
    /\ calls = <<>>

\* The category the order HAZARDOUS, ORGANIC, RECYCLABLE, GENERAL gives a text.
FirstNamed(text) ==
    LET order == <<HAZARDOUS, ORGANIC, RECYCLABLE, GENERAL>>
        named == { i \in DOMAIN order : contains(order[i], text) }
    IN  IF named = {} THEN GENERAL
        ELSE order[CHOOSE i \in named : \A j \in named : i <= j]

\* C28: every result of the serverless _classify_image carries one of the
\* four categories with the taxonomy's colour and icon; on success it is the
\* first of HAZARDOUS, ORGANIC, RECYCLABLE, GENERAL named in the upper-cased
\* reply, GENERAL when none is; without a key, without an image or on a fault
\* the result has success = false and GENERAL, grey, trash.
C28_ServerlessResultIsInTaxonomy ==
    called = "_classify_image" =>
       /\ returned.category \in Categories
       /\ returned.dustbin_color = BinColor(returned.category)
       /\ returned.dustbin_icon = BinIcon(returned.category)
       /\ IF \/ argument.api_key \in {None, <<>>}
             \/ argument.image # "image"
             \/ argument.answer.fault
          THEN /\ returned.success = FALSE
               /\ returned.category = GENERAL
               /\ returned.dustbin_color = "grey"
               /\ returned.dustbin_icon = "trash"
          ELSE /\ returned.success = TRUE
               /\ returned.category = FirstNamed(upper(argument.answer.text))

\* C28 happens: a reply naming RECYCLABLE first and hazardous, in lower case,
\* after it is answered as HAZARDOUS.
C28_Witness ==
    /\ called = "_classify_image"
    /\ returned.success = TRUE
    /\ argument.answer.text = RECYCLABLE \o <<" ">> \o text_hazardous
    /\ returned.category = HAZARDOUS
    /\ returned.dustbin_color = "red"

=============================================================================
